---- MODULE Spec2Model ----
(***************************************************************************)
(* L&R Depth firmware (DX7-like left/right depth with a centre plateau).   *)
(*                                                                         *)
(* The firmware computes in C++ `float` (IEEE-754 binary32, round to       *)
(* nearest even).  A float is represented here by a signed integer: the    *)
(* 31 low bits of its IEEE bit pattern, negated for a negative float.      *)
(* This encoding is one-to-one on the finite floats (+0 and -0 merged) and *)
(* order preserving, so a C++ comparison of two floats is the integer      *)
(* comparison of their encodings.  Arithmetic is carried out exactly on    *)
(* mantissa and exponent and then rounded, in pieces that fit the 32-bit   *)
(* integers of the model checker.                                          *)
(* Every operation is rounded on its own (no fused multiply-add), and expf *)
(* is taken correctly rounded on the arguments buildLUT gives it.          *)
(***************************************************************************)
EXTENDS Integers, Sequences, FiniteSets, TLC

\* ------------------------------------------------------------------------
\* binary32 arithmetic
\* ------------------------------------------------------------------------
P12 == 2^12
P18 == 2^18
P23 == 2^23
P24 == 2^24
P26 == 2^26
P28 == 2^28
P30 == 2^30

FAbsBits(x) == IF x < 0 THEN -x ELSE x
FSign(x) == IF x < 0 THEN -1 ELSE 1

\* Number of bits of M, 0 <= M < 2^31
RECURSIVE BitLenLow(_)
BitLenLow(M) ==
    IF M >= 16 THEN 4 + BitLenLow(M \div 16)
    ELSE IF M >= 8 THEN 4 ELSE IF M >= 4 THEN 3 ELSE IF M >= 2 THEN 2 ELSE M

BitLen(M) ==
    IF M >= P28
    THEN (IF M >= P30 THEN 31 ELSE IF M >= 2 * P28 THEN 30 ELSE 29)
    ELSE IF M >= P24
    THEN (IF M >= P26 THEN (IF M >= 2 * P26 THEN 28 ELSE 27)
          ELSE IF M >= 2 * P24 THEN 26 ELSE 25)
    ELSE BitLenLow(M)

\* Mantissa and exponent of a magnitude b: b stands for RawMan * 2^RawExp
RawMan(b) == IF b < P23 THEN b ELSE P23 + (b % P23)
RawExp(b) == IF b < P23 THEN -149 ELSE (b \div P23) - 150

\* <<m, e>> with b = m * 2^e and the mantissa m brought to 24 bits, also for
\* a subnormal; b # 0
DecSub(b, k) == <<b * 2^k, -149 - k>>

Dec(b) ==
    IF b >= P23 THEN <<P23 + (b % P23), (b \div P23) - 150>>
    ELSE DecSub(b, 24 - BitLenLow(b))

\* Bit pattern of m * 2^e for m < 2^24, e >= -149, m >= 2^23 unless e = -149.
Pack(m, e) == IF m < P23 THEN m ELSE (e + 150) * P23 + (m - P23)

\* Round to nearest, ties to even: m * 2^e with the remainder rem dropped
\* below it, half being half a unit of m
RoundUp(m, rem, half, sticky, e) ==
    Pack(m, e) + (IF \/ rem > half
                     \/ rem = half /\ sticky
                     \/ rem = half /\ ~sticky /\ m % 2 = 1
                  THEN 1 ELSE 0)

\* M * 2^E rounded after dropping its sh low bits
RoundAt(M, E, sticky, sh) ==
    IF sh <= 0 THEN Pack(M * 2^(-sh), E + sh)
    ELSE IF sh > 31 THEN 0
    ELSE IF sh = 31 THEN RoundUp(0, M, 2^(sh - 1), sticky, E + sh)
    ELSE RoundUp(M \div 2^sh, M % 2^sh, 2^(sh - 1), sticky, E + sh)

\* L is the number of bits of M; a subnormal result drops more bits
RoundLen(M, E, sticky, L) ==
    RoundAt(M, E, sticky, IF E + (L - 24) < -149 THEN -149 - E ELSE L - 24)

\* Round to nearest, ties to even: the float nearest to M * 2^E (plus, when
\* sticky, a non-zero amount below one unit of M), as a magnitude.
RoundPack(M, E, sticky) ==
    IF M = 0 THEN 0 ELSE RoundLen(M, E, sticky, BitLen(M))

\* dx + B0 * 2^(-d-6) for decoded dx, six guard bits kept
AddAligned(dx, B0, d) ==
    IF d > 30 THEN RoundPack(dx[1] * 64, dx[2] - 6, TRUE)
    ELSE RoundPack(dx[1] * 64 + (B0 \div 2^d), dx[2] - 6, B0 % 2^d # 0)

AddDec(dx, dy) == AddAligned(dx, dy[1] * 64, dx[2] - dy[2])

\* |x| + |y| for magnitudes x >= y
AddMag(x, y) == IF y = 0 THEN x ELSE AddDec(Dec(x), Dec(y))

SubSticky(dx, B, st) ==
    RoundPack(dx[1] * 64 - B - (IF st THEN 1 ELSE 0), dx[2] - 6, st)

\* dx - B0 * 2^(-d-6) for decoded dx, six guard bits kept
SubAligned(dx, B0, d) ==
    IF d > 30 THEN SubSticky(dx, 0, TRUE)
    ELSE SubSticky(dx, B0 \div 2^d, B0 % 2^d # 0)

SubDec(dx, dy) == SubAligned(dx, dy[1] * 64, dx[2] - dy[2])

\* |x| - |y| for magnitudes x > y
SubMag(x, y) == IF y = 0 THEN x ELSE SubDec(Dec(x), Dec(y))

\* a + b, x and y being the magnitudes of a and b
faddMag(a, b, x, y) ==
    IF FSign(a) = FSign(b) \/ x = 0 \/ y = 0
    THEN (IF x >= y THEN (IF x = 0 THEN 1 ELSE FSign(a)) * AddMag(x, y)
                    ELSE FSign(b) * AddMag(y, x))
    ELSE IF x = y THEN 0
    ELSE IF x > y THEN FSign(a) * SubMag(x, y)
    ELSE FSign(b) * SubMag(y, x)

\* a + b
fadd(a, b) == faddMag(a, b, FAbsBits(a), FAbsBits(b))

\* -a, a - b
fneg(a) == -a
fsub(a, b) == fadd(a, fneg(b))

\* the 48-bit product of two 24-bit mantissas, in 12-bit limbs
fmulRound(high, low, e) ==
    RoundPack(high * 64 + (low \div P18), e, low % P18 # 0)

fmulLow(hi, low24, e) == fmulRound(hi + (low24 \div P24), low24 % P24, e)

fmulMid(hh, mid, ll, e) ==
    fmulLow(hh + (mid \div P12), (mid % P12) * P12 + ll, e)

fmulLimbs(h1, l1, h2, l2, e) ==
    fmulMid(h1 * h2, h1 * l2 + l1 * h2, l1 * l2, e)

fmulDec(dx, dy) ==
    fmulLimbs(dx[1] \div P12, dx[1] % P12, dy[1] \div P12, dy[1] % P12,
              dx[2] + dy[2] + 18)

\* a * b
fmul(a, b) ==
    IF a = 0 \/ b = 0 THEN 0
    ELSE FSign(a) * FSign(b) * fmulDec(Dec(FAbsBits(a)), Dec(FAbsBits(b)))

\* Long division, four quotient bits a step: <<quotient, remainder>>
RECURSIVE LongDiv(_, _, _, _)
LongDiv(r, d, n, q) ==
    IF n = 0 THEN <<q, r>>
    ELSE LongDiv((r * 16) % d, d, n - 1, q * 16 + ((r * 16) \div d))

fdivRound(qr, e) == RoundPack(qr[1], e, qr[2] # 0)

fdivDec(dx, dy) ==
    fdivRound(LongDiv(dx[1] % dy[1], dy[1], 7, dx[1] \div dy[1]),
              dx[2] - dy[2] - 28)

\* a / b for b # 0
fdiv(a, b) ==
    IF a = 0 THEN 0
    ELSE FSign(a) * FSign(b) * fdivDec(Dec(FAbsBits(a)), Dec(FAbsBits(b)))

\* fabsf
fabsf(a) == FAbsBits(a)

\* (float)n for an int 0 <= n < 2^31
FromInt(n) == RoundPack(n, 0, FALSE)

\* Truncation toward zero of a float 0 <= a < 2^31
Trunc(a) ==
    IF a = 0 THEN 0
    ELSE IF RawExp(a) >= 0 THEN RawMan(a) * 2^RawExp(a)
    ELSE IF RawExp(a) < -24 THEN 0
    ELSE RawMan(a) \div 2^(-RawExp(a))

\* ------------------------------------------------------------------------
\* Constants of the firmware (floats by their encoding)
\* ------------------------------------------------------------------------
\* literals 0.f, 1.f, 0.5f, 2.0f
F_ZERO == 0
F_ONE == 1065353216
F_HALF == 1056964608
F_TWO == 1073741824

\* 65535.0f
UI16_MAX_F == 1199570688
\* 0.1f
CENTER_WIDTH == 1036831949
\* 4.0f
SHAPE_C == 1082130432
\* 0.06f
ALPHA_POTS == 1031127695
LUT_SIZE == 2048
\* (float)LUT_SIZE
LUT_SIZE_F == FromInt(LUT_SIZE)

center_width_float == fmul(fmul(CENTER_WIDTH, UI16_MAX_F), F_HALF)

slider_length_minus_center_float ==
    fsub(UI16_MAX_F, fmul(F_TWO, center_width_float))

\* The three revisions of the firmware held by the repository, oldest first:
\* "first" (LUT not normalised, side volume scaled by the centre pot),
\* "normalized" (LUT normalised, same volume computation) and "inverting"
\* (the side slope runs between the side pot and the centre pot).
Revisions == {"first", "normalized", "inverting"}

\* ------------------------------------------------------------------------
\* expf of the C library, on the arguments buildLUT passes: -c*x for
\* x = i/LUT_SIZE and c = SHAPE_C, that is -i/512 for i in 0..LUT_SIZE, and
\* -c itself.  Entry i+1 is the float nearest to exp(-i/512).
\* ------------------------------------------------------------------------
ExpfTable == <<
    1065353216, 1065320480, 1065287808, 1065255199, 1065222655, 1065190173,
    1065157756, 1065125401, 1065093109, 1065060881, 1065028715, 1064996612,
    1064964572, 1064932595, 1064900679, 1064868826, 1064837035, 1064805306,
    1064773640, 1064742034, 1064710491, 1064679009, 1064647589, 1064616229,
    1064584931, 1064553694, 1064522518, 1064491403, 1064460349, 1064429355,
    1064398422, 1064367549, 1064336736, 1064305983, 1064275291, 1064244658,
    1064214085, 1064183572, 1064153118, 1064122723, 1064092388, 1064062112,
    1064031896, 1064001738, 1063971639, 1063941599, 1063911617, 1063881694,
    1063851829, 1063822023, 1063792274, 1063762584, 1063732952, 1063703377,
    1063673860, 1063644401, 1063614999, 1063585655, 1063556368, 1063527138,
    1063497965, 1063468849, 1063439790, 1063410787, 1063381841, 1063352952,
    1063324119, 1063295342, 1063266621, 1063237957, 1063209348, 1063180795,
    1063152298, 1063123856, 1063095470, 1063067140, 1063038864, 1063010644,
    1062982479, 1062954369, 1062926313, 1062898313, 1062870367, 1062842475,
    1062814638, 1062786856, 1062759127, 1062731453, 1062703832, 1062676266,
    1062648753, 1062621294, 1062593889, 1062566537, 1062539238, 1062511993,
    1062484801, 1062457661, 1062430575, 1062403542, 1062376561, 1062349634,
    1062322758, 1062295935, 1062269165, 1062242446, 1062215780, 1062189166,
    1062162604, 1062136093, 1062109634, 1062083227, 1062056872, 1062030568,
    1062004315, 1061978113, 1061951963, 1061925863, 1061899815, 1061873817,
    1061847870, 1061821974, 1061796128, 1061770333, 1061744588, 1061718893,
    1061693248, 1061667654, 1061642109, 1061616614, 1061591169, 1061565774,
    1061540428, 1061515131, 1061489884, 1061464686, 1061439538, 1061414438,
    1061389388, 1061364386, 1061339433, 1061314529, 1061289673, 1061264866,
    1061240107, 1061215397, 1061190734, 1061166120, 1061141554, 1061117036,
    1061092566, 1061068143, 1061043768, 1061019441, 1060995161, 1060970929,
    1060946743, 1060922605, 1060898514, 1060874470, 1060850473, 1060826523,
    1060802620, 1060778763, 1060754953, 1060731189, 1060707471, 1060683800,
    1060660175, 1060636596, 1060613064, 1060589577, 1060566136, 1060542740,
    1060519390, 1060496086, 1060472828, 1060449614, 1060426446, 1060403323,
    1060380246, 1060357213, 1060334225, 1060311282, 1060288384, 1060265531,
    1060242722, 1060219958, 1060197238, 1060174562, 1060151931, 1060129344,
    1060106801, 1060084302, 1060061846, 1060039435, 1060017067, 1059994743,
    1059972463, 1059950226, 1059928032, 1059905882, 1059883775, 1059861711,
    1059839690, 1059817712, 1059795777, 1059773885, 1059752035, 1059730228,
    1059708464, 1059686742, 1059665063, 1059643425, 1059621830, 1059600278,
    1059578767, 1059557298, 1059535871, 1059514486, 1059493143, 1059471841,
    1059450581, 1059429362, 1059408185, 1059387049, 1059365954, 1059344901,
    1059323888, 1059302917, 1059281986, 1059261096, 1059240247, 1059219439,
    1059198671, 1059177944, 1059157257, 1059136611, 1059116005, 1059095439,
    1059074913, 1059054428, 1059033982, 1059013576, 1058993210, 1058972884,
    1058952597, 1058932350, 1058912143, 1058891975, 1058871846, 1058851757,
    1058831706, 1058811695, 1058791723, 1058771790, 1058751896, 1058732040,
    1058712224, 1058692446, 1058672706, 1058653006, 1058633343, 1058613719,
    1058594133, 1058574586, 1058555076, 1058535605, 1058516172, 1058496776,
    1058477418, 1058458099, 1058438816, 1058419572, 1058400365, 1058381196,
    1058362063, 1058342969, 1058323911, 1058304891, 1058285908, 1058266962,
    1058248052, 1058229180, 1058210345, 1058191546, 1058172784, 1058154058,
    1058135370, 1058116717, 1058098101, 1058079521, 1058060978, 1058042471,
    1058023999, 1058005564, 1057987165, 1057968802, 1057950475, 1057932183,
    1057913927, 1057895707, 1057877522, 1057859373, 1057841259, 1057823180,
    1057805137, 1057787129, 1057769156, 1057751218, 1057733315, 1057715447,
    1057697614, 1057679816, 1057662052, 1057644323, 1057626629, 1057608969,
    1057591344, 1057573753, 1057556197, 1057538674, 1057521186, 1057503732,
    1057486312, 1057468926, 1057451574, 1057434256, 1057416972, 1057399721,
    1057382504, 1057365320, 1057348171, 1057331054, 1057313971, 1057296921,
    1057279905, 1057262922, 1057245972, 1057229055, 1057212171, 1057195320,
    1057178501, 1057161716, 1057144963, 1057128244, 1057111556, 1057094901,
    1057078279, 1057061689, 1057045132, 1057028607, 1057012114, 1056995653,
    1056979225, 1056961048, 1056928319, 1056895654, 1056863053, 1056830515,
    1056798040, 1056765629, 1056733282, 1056700997, 1056668775, 1056636616,
    1056604520, 1056572487, 1056540516, 1056508608, 1056476761, 1056444977,
    1056413255, 1056381595, 1056349996, 1056318460, 1056286984, 1056255571,
    1056224218, 1056192927, 1056161696, 1056130527, 1056099418, 1056068371,
    1056037383, 1056006457, 1055975590, 1055944784, 1055914038, 1055883352,
    1055852725, 1055822159, 1055791652, 1055761205, 1055730817, 1055700488,
    1055670219, 1055640008, 1055609857, 1055579764, 1055549730, 1055519755,
    1055489838, 1055459980, 1055430180, 1055400438, 1055370754, 1055341128,
    1055311559, 1055282049, 1055252596, 1055223200, 1055193862, 1055164581,
    1055135358, 1055106191, 1055077081, 1055048028, 1055019032, 1054990092,
    1054961208, 1054932382, 1054903611, 1054874896, 1054846238, 1054817635,
    1054789088, 1054760597, 1054732162, 1054703782, 1054675457, 1054647188,
    1054618973, 1054590814, 1054562710, 1054534661, 1054506666, 1054478726,
    1054450840, 1054423009, 1054395232, 1054367510, 1054339841, 1054312227,
    1054284666, 1054257159, 1054229706, 1054202306, 1054174960, 1054147667,
    1054120428, 1054093242, 1054066108, 1054039028, 1054012000, 1053985025,
    1053958103, 1053931233, 1053904416, 1053877651, 1053850939, 1053824278,
    1053797670, 1053771113, 1053744608, 1053718155, 1053691753, 1053665404,
    1053639105, 1053612858, 1053586662, 1053560517, 1053534423, 1053508380,
    1053482388, 1053456446, 1053430555, 1053404715, 1053378925, 1053353186,
    1053327496, 1053301857, 1053276268, 1053250729, 1053225239, 1053199800,
    1053174410, 1053149069, 1053123778, 1053098536, 1053073344, 1053048200,
    1053023106, 1052998061, 1052973064, 1052948117, 1052923218, 1052898367,
    1052873566, 1052848812, 1052824107, 1052799450, 1052774841, 1052750280,
    1052725767, 1052701302, 1052676885, 1052652515, 1052628193, 1052603918,
    1052579691, 1052555511, 1052531378, 1052507292, 1052483253, 1052459261,
    1052435316, 1052411418, 1052387566, 1052363761, 1052340002, 1052316290,
    1052292623, 1052269003, 1052245430, 1052221902, 1052198420, 1052174984,
    1052151593, 1052128248, 1052104949, 1052081695, 1052058487, 1052035324,
    1052012206, 1051989133, 1051966105, 1051943123, 1051920185, 1051897291,
    1051874443, 1051851639, 1051828879, 1051806164, 1051783493, 1051760867,
    1051738284, 1051715746, 1051693252, 1051670801, 1051648395, 1051626032,
    1051603713, 1051581437, 1051559205, 1051537016, 1051514870, 1051492768,
    1051470708, 1051448692, 1051426719, 1051404788, 1051382901, 1051361056,
    1051339254, 1051317494, 1051295777, 1051274102, 1051252469, 1051230879,
    1051209331, 1051187824, 1051166360, 1051144938, 1051123557, 1051102218,
    1051080921, 1051059665, 1051038451, 1051017279, 1050996147, 1050975057,
    1050954008, 1050933000, 1050912033, 1050891107, 1050870221, 1050849377,
    1050828573, 1050807810, 1050787087, 1050766404, 1050745762, 1050725161,
    1050704599, 1050684078, 1050663597, 1050643155, 1050622754, 1050602392,
    1050582070, 1050561788, 1050541545, 1050521342, 1050501178, 1050481054,
    1050460968, 1050440922, 1050420916, 1050400948, 1050381019, 1050361129,
    1050341278, 1050321465, 1050301691, 1050281956, 1050262259, 1050242601,
    1050222981, 1050203400, 1050183856, 1050164351, 1050144884, 1050125454,
    1050106063, 1050086710, 1050067394, 1050048116, 1050028875, 1050009673,
    1049990507, 1049971379, 1049952288, 1049933235, 1049914219, 1049895240,
    1049876297, 1049857392, 1049838524, 1049819692, 1049800898, 1049782140,
    1049763418, 1049744733, 1049726085, 1049707473, 1049688897, 1049670357,
    1049651854, 1049633387, 1049614956, 1049596560, 1049578201, 1049559878,
    1049541590, 1049523338, 1049505121, 1049486940, 1049468795, 1049450685,
    1049432610, 1049414571, 1049396566, 1049378597, 1049360663, 1049342764,
    1049324900, 1049307071, 1049289276, 1049271517, 1049253791, 1049236101,
    1049218445, 1049200823, 1049183236, 1049165683, 1049148165, 1049130680,
    1049113230, 1049095814, 1049078431, 1049061083, 1049043768, 1049026488,
    1049009241, 1048992027, 1048974848, 1048957701, 1048940589, 1048923509,
    1048906463, 1048889450, 1048872471, 1048855524, 1048838611, 1048821730,
    1048804883, 1048788068, 1048771286, 1048754537, 1048737821, 1048721137,
    1048704486, 1048687867, 1048671281, 1048654727, 1048638205, 1048621716,
    1048605259, 1048588834, 1048568881, 1048536159, 1048503501, 1048470906,
    1048438376, 1048405908, 1048373504, 1048341163, 1048308885, 1048276670,
    1048244518, 1048212429, 1048180403, 1048148438, 1048116537, 1048084697,
    1048052920, 1048021204, 1047989551, 1047957959, 1047926429, 1047894961,
    1047863553, 1047832207, 1047800923, 1047769699, 1047738536, 1047707434,
    1047676393, 1047645412, 1047614492, 1047583632, 1047552833, 1047522093,
    1047491413, 1047460794, 1047430234, 1047399733, 1047369292, 1047338911,
    1047308589, 1047278326, 1047248122, 1047217977, 1047187890, 1047157863,
    1047127894, 1047097984, 1047068131, 1047038338, 1047008602, 1046978924,
    1046949304, 1046919742, 1046890238, 1046860791, 1046831402, 1046802070,
    1046772796, 1046743578, 1046714417, 1046685314, 1046656267, 1046627277,
    1046598343, 1046569466, 1046540645, 1046511880, 1046483172, 1046454520,
    1046425923, 1046397382, 1046368897, 1046340468, 1046312094, 1046283775,
    1046255512, 1046227303, 1046199150, 1046171052, 1046143008, 1046115020,
    1046087086, 1046059206, 1046031381, 1046003610, 1045975893, 1045948231,
    1045920622, 1045893067, 1045865566, 1045838119, 1045810725, 1045783385,
    1045756098, 1045728864, 1045701683, 1045674555, 1045647481, 1045620459,
    1045593490, 1045566573, 1045539709, 1045512898, 1045486139, 1045459432,
    1045432777, 1045406174, 1045379623, 1045353124, 1045326676, 1045300280,
    1045273936, 1045247643, 1045221401, 1045195211, 1045169071, 1045142983,
    1045116946, 1045090959, 1045065023, 1045039138, 1045013303, 1044987518,
    1044961784, 1044936100, 1044910467, 1044884883, 1044859349, 1044833865,
    1044808431, 1044783046, 1044757711, 1044732425, 1044707189, 1044682002,
    1044656864, 1044631775, 1044606735, 1044581744, 1044556801, 1044531908,
    1044507063, 1044482266, 1044457518, 1044432818, 1044408166, 1044383562,
    1044359007, 1044334499, 1044310039, 1044285627, 1044261262, 1044236945,
    1044212676, 1044188453, 1044164278, 1044140151, 1044116070, 1044092036,
    1044068049, 1044044109, 1044020216, 1043996369, 1043972569, 1043948815,
    1043925108, 1043901447, 1043877832, 1043854263, 1043830740, 1043807263,
    1043783832, 1043760447, 1043737107, 1043713813, 1043690564, 1043667360,
    1043644202, 1043621089, 1043598021, 1043574998, 1043552020, 1043529087,
    1043506199, 1043483355, 1043460556, 1043437801, 1043415091, 1043392425,
    1043369803, 1043347226, 1043324692, 1043302203, 1043279757, 1043257355,
    1043234997, 1043212682, 1043190411, 1043168184, 1043146000, 1043123859,
    1043101761, 1043079706, 1043057695, 1043035726, 1043013800, 1042991918,
    1042970077, 1042948280, 1042926525, 1042904812, 1042883142, 1042861514,
    1042839928, 1042818384, 1042796882, 1042775423, 1042754005, 1042732629,
    1042711295, 1042690002, 1042668751, 1042647541, 1042626373, 1042605246,
    1042584160, 1042563115, 1042542112, 1042521149, 1042500227, 1042479347,
    1042458507, 1042437707, 1042416948, 1042396230, 1042375552, 1042354914,
    1042334317, 1042313760, 1042293243, 1042272766, 1042252329, 1042231932,
    1042211574, 1042191257, 1042170979, 1042150740, 1042130541, 1042110382,
    1042090262, 1042070181, 1042050139, 1042030136, 1042010173, 1041990248,
    1041970362, 1041950515, 1041930707, 1041910937, 1041891206, 1041871514,
    1041851860, 1041832244, 1041812667, 1041793127, 1041773626, 1041754163,
    1041734738, 1041715351, 1041696001, 1041676690, 1041657416, 1041638179,
    1041618981, 1041599819, 1041580695, 1041561609, 1041542559, 1041523547,
    1041504572, 1041485634, 1041466733, 1041447868, 1041429041, 1041410250,
    1041391496, 1041372778, 1041354097, 1041335453, 1041316845, 1041298273,
    1041279737, 1041261238, 1041242775, 1041224347, 1041205956, 1041187601,
    1041169281, 1041150997, 1041132749, 1041114536, 1041096359, 1041078218,
    1041060111, 1041042041, 1041024005, 1041006004, 1040988039, 1040970109,
    1040952214, 1040934353, 1040916528, 1040898737, 1040880981, 1040863260,
    1040845573, 1040827921, 1040810303, 1040792719, 1040775170, 1040757655,
    1040740175, 1040722728, 1040705316, 1040687937, 1040670592, 1040653281,
    1040636004, 1040618761, 1040601551, 1040584375, 1040567233, 1040550123,
    1040533048, 1040516005, 1040498996, 1040482020, 1040465077, 1040448167,
    1040431290, 1040414446, 1040397635, 1040380857, 1040364112, 1040347399,
    1040330719, 1040314071, 1040297456, 1040280873, 1040264323, 1040247804,
    1040231319, 1040214865, 1040198443, 1040176715, 1040144000, 1040111349,
    1040078761, 1040046237, 1040013776, 1039981379, 1039949045, 1039916774,
    1039884566, 1039852421, 1039820339, 1039788319, 1039756361, 1039724467,
    1039692634, 1039660863, 1039629154, 1039597508, 1039565923, 1039534399,
    1039502937, 1039471537, 1039440198, 1039408920, 1039377703, 1039346546,
    1039315451, 1039284416, 1039253442, 1039222529, 1039191675, 1039160882,
    1039130149, 1039099476, 1039068863, 1039038309, 1039007815, 1038977381,
    1038947006, 1038916690, 1038886433, 1038856236, 1038826097, 1038796017,
    1038765996, 1038736034, 1038706130, 1038676284, 1038646496, 1038616767,
    1038587095, 1038557482, 1038527926, 1038498428, 1038468988, 1038439605,
    1038410279, 1038381011, 1038351799, 1038322645, 1038293547, 1038264507,
    1038235522, 1038206595, 1038177724, 1038148909, 1038120151, 1038091448,
    1038062802, 1038034211, 1038005677, 1037977198, 1037948774, 1037920406,
    1037892094, 1037863836, 1037835634, 1037807487, 1037779395, 1037751357,
    1037723374, 1037695446, 1037667572, 1037639753, 1037611988, 1037584277,
    1037556620, 1037529018, 1037501469, 1037473973, 1037446532, 1037419144,
    1037391809, 1037364528, 1037337300, 1037310125, 1037283003, 1037255935,
    1037228918, 1037201955, 1037175044, 1037148186, 1037121380, 1037094627,
    1037067925, 1037041276, 1037014679, 1036988133, 1036961640, 1036935198,
    1036908808, 1036882469, 1036856181, 1036829945, 1036803760, 1036777627,
    1036751544, 1036725512, 1036699531, 1036673600, 1036647720, 1036621891,
    1036596112, 1036570383, 1036544705, 1036519077, 1036493498, 1036467970,
    1036442491, 1036417062, 1036391683, 1036366353, 1036341073, 1036315842,
    1036290660, 1036265528, 1036240444, 1036215409, 1036190424, 1036165486,
    1036140598, 1036115758, 1036090967, 1036066224, 1036041529, 1036016883,
    1035992284, 1035967734, 1035943231, 1035918776, 1035894369, 1035870010,
    1035845698, 1035821434, 1035797217, 1035773047, 1035748924, 1035724849,
    1035700820, 1035676838, 1035652903, 1035629015, 1035605173, 1035581378,
    1035557630, 1035533927, 1035510271, 1035486661, 1035463097, 1035439579,
    1035416107, 1035392681, 1035369301, 1035345966, 1035322677, 1035299433,
    1035276234, 1035253081, 1035229973, 1035206910, 1035183892, 1035160919,
    1035137990, 1035115107, 1035092268, 1035069474, 1035046724, 1035024018,
    1035001357, 1034978740, 1034956167, 1034933639, 1034911154, 1034888713,
    1034866316, 1034843962, 1034821653, 1034799386, 1034777163, 1034754984,
    1034732848, 1034710755, 1034688705, 1034666698, 1034644734, 1034622813,
    1034600935, 1034579099, 1034557306, 1034535556, 1034513847, 1034492182,
    1034470558, 1034448977, 1034427438, 1034405941, 1034384486, 1034363073,
    1034341701, 1034320371, 1034299083, 1034277836, 1034256631, 1034235467,
    1034214345, 1034193264, 1034172223, 1034151224, 1034130266, 1034109349,
    1034088473, 1034067637, 1034046842, 1034026087, 1034005373, 1033984700,
    1033964067, 1033943474, 1033922921, 1033902408, 1033881936, 1033861503,
    1033841110, 1033820757, 1033800444, 1033780170, 1033759936, 1033739741,
    1033719586, 1033699470, 1033679393, 1033659356, 1033639358, 1033619398,
    1033599478, 1033579596, 1033559753, 1033539949, 1033520184, 1033500457,
    1033480769, 1033461119, 1033441507, 1033421934, 1033402399, 1033382902,
    1033363443, 1033344022, 1033324639, 1033305293, 1033285986, 1033266716,
    1033247484, 1033228289, 1033209132, 1033190012, 1033170929, 1033151884,
    1033132876, 1033113904, 1033094970, 1033076073, 1033057213, 1033038389,
    1033019603, 1033000853, 1032982139, 1032963462, 1032944822, 1032926217,
    1032907650, 1032889118, 1032870622, 1032852163, 1032833740, 1032815352,
    1032797001, 1032778685, 1032760405, 1032742160, 1032723952, 1032705779,
    1032687641, 1032669538, 1032651471, 1032633440, 1032615443, 1032597481,
    1032579555, 1032561664, 1032543807, 1032525985, 1032508198, 1032490446,
    1032472729, 1032455046, 1032437397, 1032419783, 1032402203, 1032384658,
    1032367147, 1032349670, 1032332227, 1032314818, 1032297443, 1032280102,
    1032262795, 1032245521, 1032228282, 1032211076, 1032193903, 1032176764,
    1032159659, 1032142586, 1032125548, 1032108542, 1032091570, 1032074630,
    1032057724, 1032040851, 1032024010, 1032007203, 1031990428, 1031973686,
    1031956977, 1031940300, 1031923656, 1031907045, 1031890465, 1031873918,
    1031857404, 1031840921, 1031824471, 1031808053, 1031784550, 1031751842,
    1031719197, 1031686617, 1031654099, 1031621646, 1031589255, 1031556928,
    1031524664, 1031492463, 1031460324, 1031428249, 1031396236, 1031364285,
    1031332397, 1031300571, 1031268807, 1031237105, 1031205465, 1031173887,
    1031142370, 1031110915, 1031079521, 1031048189, 1031016917, 1030985707,
    1030954557, 1030923468, 1030892440, 1030861473, 1030830566, 1030799719,
    1030768932, 1030738206, 1030707539, 1030676932, 1030646385, 1030615898,
    1030585470, 1030555101, 1030524792, 1030494542, 1030464351, 1030434218,
    1030404145, 1030374130, 1030344174, 1030314276, 1030284437, 1030254656,
    1030224932, 1030195267, 1030165660, 1030136111, 1030106619, 1030077185,
    1030047808, 1030018488, 1029989226, 1029960021, 1029930873, 1029901781,
    1029872747, 1029843769, 1029814848, 1029785983, 1029757174, 1029728422,
    1029699725, 1029671085, 1029642501, 1029613972, 1029585499, 1029557082,
    1029528720, 1029500413, 1029472162, 1029443965, 1029415824, 1029387738,
    1029359706, 1029331729, 1029303807, 1029275939, 1029248126, 1029220367,
    1029192662, 1029165011, 1029137414, 1029109871, 1029082382, 1029054946,
    1029027564, 1029000235, 1028972959, 1028945737, 1028918568, 1028891452,
    1028864389, 1028837378, 1028810421, 1028783516, 1028756663, 1028729863,
    1028703115, 1028676419, 1028649776, 1028623184, 1028596644, 1028570157,
    1028543720, 1028517336, 1028491002, 1028464721, 1028438490, 1028412311,
    1028386182, 1028360105, 1028334079, 1028308103, 1028282178, 1028256304,
    1028230480, 1028204706, 1028178983, 1028153310, 1028127687, 1028102114,
    1028076591, 1028051118, 1028025695, 1028000321, 1027974996, 1027949721,
    1027924496, 1027899319, 1027874192, 1027849114, 1027824084, 1027799104,
    1027774172, 1027749289, 1027724454, 1027699668, 1027674931, 1027650241,
    1027625600, 1027601007, 1027576461, 1027551964, 1027527514, 1027503113,
    1027478758, 1027454452, 1027430192, 1027405980, 1027381816, 1027357698,
    1027333628, 1027309604, 1027285628, 1027261698, 1027237815, 1027213978,
    1027190188, 1027166444, 1027142747, 1027119096, 1027095491, 1027071932,
    1027048419, 1027024952, 1027001531, 1026978155, 1026954825, 1026931541,
    1026908302, 1026885108, 1026861960, 1026838857, 1026815799, 1026792786,
    1026769817, 1026746894, 1026724015, 1026701181, 1026678392, 1026655647,
    1026632946, 1026610290, 1026587678, 1026565110, 1026542586, 1026520106,
    1026497670, 1026475277, 1026452928, 1026430623, 1026408362, 1026386144,
    1026363969, 1026341837, 1026319749, 1026297704, 1026275702, 1026253742,
    1026231826, 1026209952, 1026188121, 1026166333, 1026144587, 1026122884,
    1026101222, 1026079604, 1026058027, 1026036492, 1026015000, 1025993549,
    1025972141, 1025950774, 1025929448, 1025908165, 1025886923, 1025865722,
    1025844563, 1025823445, 1025802368, 1025781332, 1025760337, 1025739384,
    1025718471, 1025697599, 1025676768, 1025655977, 1025635227, 1025614517,
    1025593848, 1025573219, 1025552631, 1025532082, 1025511574, 1025491106,
    1025470677, 1025450289, 1025429940, 1025409631, 1025389362, 1025369132,
    1025348942, 1025328791, 1025308679, 1025288607, 1025268573, 1025248579,
    1025228624, 1025208708, 1025188830, 1025168992, 1025149192, 1025129431,
    1025109708, 1025090024, 1025070378, 1025050771, 1025031202, 1025011671,
    1024992178, 1024972723, 1024953306, 1024933927, 1024914586, 1024895282,
    1024876017, 1024856789, 1024837598, 1024818445, 1024799329, 1024780250,
    1024761209, 1024742205, 1024723238, 1024704308, 1024685414, 1024666558,
    1024647739, 1024628956, 1024610210, 1024591500, 1024572827, 1024554191,
    1024535590, 1024517026, 1024498499, 1024480007, 1024461552, 1024443132,
    1024424749, 1024406401, 1024388089, 1024369813, 1024351573, 1024333368,
    1024315198, 1024297064, 1024278966, 1024260903, 1024242875, 1024224882,
    1024206924, 1024189002, 1024171114, 1024153261, 1024135443, 1024117660,
    1024099912, 1024082198, 1024064518, 1024046874, 1024029263, 1024011687,
    1023994146, 1023976638, 1023959165, 1023941726, 1023924320, 1023906949,
    1023889612, 1023872308, 1023855039, 1023837803, 1023820600, 1023803431,
    1023786296, 1023769194, 1023752126, 1023735090, 1023718088, 1023701120,
    1023684184, 1023667281, 1023650412, 1023633575, 1023616771, 1023600000,
    1023583261, 1023566556, 1023549883, 1023533242, 1023516634, 1023500058,
    1023483515, 1023467004, 1023450525, 1023434078, 1023417663, 1023392385,
    1023359684, 1023327046, 1023294473, 1023261962, 1023229516, 1023197132,
    1023164812, 1023132554, 1023100360, 1023068229, 1023036160, 1023004154,
    1022972210, 1022940328, 1022908509, 1022876752, 1022845057, 1022813423,
    1022781852, 1022750342, 1022718893, 1022687506, 1022656180, 1022624915,
    1022593712, 1022562569, 1022531486, 1022500465, 1022469504, 1022438603,
    1022407763, 1022376983, 1022346263, 1022315603, 1022285003, 1022254462,
    1022223981, 1022193560, 1022163197, 1022132895, 1022102651, 1022072466,
    1022042340, 1022012273, 1021982265, 1021952315, 1021922423, 1021892590,
    1021862815, 1021833099, 1021803440, 1021773839, 1021744296, 1021714810,
    1021685382, 1021656012, 1021626698, 1021597442, 1021568243, 1021539101,
    1021510016, 1021480988, 1021452016, 1021423101, 1021394242, 1021365440,
    1021336693, 1021308003, 1021279369, 1021250791, 1021222268, 1021193801,
    1021165390, 1021137034, 1021108733, 1021080488, 1021052297, 1021024162,
    1020996082, 1020968056, 1020940085, 1020912169, 1020884307, 1020856499,
    1020828746, 1020801047, 1020773402, 1020745811, 1020718274, 1020690790,
    1020663360, 1020635984, 1020608661, 1020581391, 1020554175, 1020527012,
    1020499901, 1020472844, 1020445839, 1020418887, 1020391988, 1020365141,
    1020338346, 1020311604, 1020284914, 1020258276, 1020231690, 1020205156,
    1020178674, 1020152243, 1020125864, 1020099537, 1020073260, 1020047035,
    1020020862, 1019994739, 1019968667, 1019942646, 1019916676, 1019890757,
    1019864888, 1019839069, 1019813301, 1019787584, 1019761916, 1019736299,
    1019710731, 1019685214, 1019659746, 1019634328, 1019608959, 1019583640,
    1019558370, 1019533150, 1019507979, 1019482857, 1019457784, 1019432760,
    1019407785, 1019382858, 1019357981, 1019333151, 1019308370, 1019283638,
    1019258954, 1019234318, 1019209730, 1019185190, 1019160697, 1019136253,
    1019111856, 1019087507, 1019063206, 1019038952, 1019014745, 1018990585,
    1018966473, 1018942407, 1018918389, 1018894417, 1018870493, 1018846615,
    1018822783, 1018798998, 1018775259, 1018751567, 1018727921, 1018704321,
    1018680767, 1018657259, 1018633797, 1018610381, 1018587011, 1018563686,
    1018540406, 1018517172, 1018493983, 1018470840, 1018447742, 1018424688,
    1018401680, 1018378717, 1018355798, 1018332924, 1018310095, 1018287311,
    1018264570, 1018241875, 1018219223, 1018196616, 1018174053, 1018151533,
    1018129058, 1018106627, 1018084239, 1018061895, 1018039595, 1018017338,
    1017995124, 1017972954, 1017950828, 1017928744, 1017906703, 1017884706,
    1017862751, 1017840839, 1017818970, 1017797144, 1017775360, 1017753619,
    1017731920, 1017710264, 1017688649, 1017667077, 1017645547, 1017624059,
    1017602613, 1017581209, 1017559847, 1017538526, 1017517247, 1017496009,
    1017474813, 1017453658, 1017432545, 1017411472, 1017390441, 1017369451,
    1017348502, 1017327593, 1017306726, 1017285899, 1017265113, 1017244367,
    1017223662, 1017202997, 1017182373, 1017161788, 1017141244, 1017120740,
    1017100276, 1017079852, 1017059468, 1017039124, 1017018819, 1016998554,
    1016978328, 1016958142, 1016937996, 1016917888, 1016897820, 1016877791,
    1016857801, 1016837850, 1016817938, 1016798065, 1016778231, 1016758435,
    1016738678, 1016718960, 1016699280, 1016679638, 1016660035, 1016640470,
    1016620943, 1016601454, 1016582004, 1016562591, 1016543216, 1016523879,
    1016504580, 1016485318, 1016466094
>>

expf(y) == ExpfTable[Trunc(fmul(fneg(y), FromInt(512))) + 1]

\* ------------------------------------------------------------------------
\* State
\* ------------------------------------------------------------------------
VARIABLES
    revision,               \* which revision of the firmware runs
    pc,                     \* "start": before buildLUT; "loop": in while (true)
    lutC,                   \* lutExpUp[]: 0 while the static array is still
                            \* zero, else the argument c of the buildLUT call
                            \* that filled it (the entries are LutEntry(c, i))
    cv_raw_f,
    slider_raw_f, slider_fil_f, init_slider,
    center_raw_f, center_fil_f, init_center,
    left_raw_f, left_fil_f, init_left,
    right_raw_f, right_fil_f, init_right,
    volume, volume_left, volume_right,
    center_from_slider_f, left_slide_point_f, right_slide_point_f,
    useLogLeft, useLogRight, \* the two mode switches as read by the last iteration
    zone,                   \* branch taken by the last iteration
    ratio,                  \* ratio_l / ratio_r handed to computeVolume*
    cast_f,                 \* the float the last iteration converted to uint16_t
    dac,                    \* last value given to filtered_output.write_u16
    iter                    \* iterations of the loop so far

pots == <<slider_raw_f, slider_fil_f, init_slider, center_raw_f, center_fil_f,
          init_center, left_raw_f, left_fil_f, init_left, right_raw_f,
          right_fil_f, init_right>>

outs == <<volume, volume_left, volume_right, center_from_slider_f,
          left_slide_point_f, right_slide_point_f, useLogLeft, useLogRight,
          zone, ratio, cast_f, dac>>

vars == <<revision, pc, lutC, cv_raw_f, pots, outs, iter>>

\* ------------------------------------------------------------------------
\* EWMA for pot smoothing:  <<returned value, initDone afterwards>>
\* ------------------------------------------------------------------------
\* slip: no lazy initialisation, the first call blends into the stored 0.0
ewma_NoLazyInit(in, out_prev, alpha, initDone) ==
    <<fadd(out_prev, fmul(alpha, fsub(in, out_prev))), TRUE>>

\* slip: the correction is subtracted
ewma_SignSlip(in, out_prev, alpha, initDone) ==
    IF ~initDone
    THEN <<in, TRUE>>
    ELSE <<fsub(out_prev, fmul(alpha, fsub(in, out_prev))), initDone>>

\* slip: the correction is added to the input instead of the stored output
ewma_WrongBase(in, out_prev, alpha, initDone) ==
    IF ~initDone
    THEN <<in, TRUE>>
    ELSE <<fadd(in, fmul(alpha, fsub(in, out_prev))), initDone>>

ewma_filter_float(in, out_prev, alpha, initDone) ==
    IF ~initDone
    THEN <<in, TRUE>>
    ELSE <<fadd(out_prev, fmul(alpha, fsub(in, out_prev))), initDone>>

\* ------------------------------------------------------------------------
\* LUT
\* ------------------------------------------------------------------------
\* Entry i written by buildLUT(c) of the first revision: 1 - exp(-c*x)
LutEntryFirst(c, i) ==
    LET x == fdiv(FromInt(i), LUT_SIZE_F)
    IN  fsub(F_ONE, expf(fmul(fneg(c), x)))

\* Entry i written by buildLUT(c) of the later revisions:
\* (1 - exp(-c*x)) / (1 - exp(-c))
LutEntryNorm(c, i) ==
    LET x == fdiv(FromInt(i), LUT_SIZE_F)
        denom == fsub(F_ONE, expf(fneg(c)))
        up == fdiv(fsub(F_ONE, expf(fmul(fneg(c), x))), denom)
    IN  up

LutEntry(c, i) ==
    IF revision = "first" THEN LutEntryFirst(c, i) ELSE LutEntryNorm(c, i)

\* lutExpUp[i], i in 0..LUT_SIZE
lutExpUp(i) == IF lutC = 0 THEN F_ZERO ELSE LutEntry(lutC, i)

\* return v0 + frac * (v1 - v0)
interpolateMix(frac, v0, v1) == fadd(v0, fmul(frac, fsub(v1, v0)))

\* frac, v0, v1 for the index idx
interpolateAt(fx, idx) ==
    interpolateMix(fsub(fx, FromInt(idx)), lutExpUp(idx), lutExpUp(idx + 1))

\* idx = (int)fx, held below LUT_SIZE
interpolateIdx(fx) ==
    IF Trunc(fx) >= LUT_SIZE THEN LUT_SIZE - 1 ELSE Trunc(fx)

\* fx = x * LUT_SIZE
interpolateFx(fx) == interpolateAt(fx, interpolateIdx(fx))

\* x after if (x < 0.f) x = 0.f; if (x > 1.f) x = 1.f;
Clamp01(x) ==
    IF x < F_ZERO THEN F_ZERO ELSE IF x > F_ONE THEN F_ONE ELSE x

interpolateLUT(x) == interpolateFx(fmul(Clamp01(x), LUT_SIZE_F))

\* ------------------------------------------------------------------------
\* Shaping
\* ------------------------------------------------------------------------
shapeLeft(r, useLog) == IF useLog THEN interpolateLUT(r) ELSE r

\* slip: the ratio is not complemented
shapeRight_NoMirror(r, useLog) == IF useLog THEN interpolateLUT(r) ELSE r

shapeRight(r, useLog) ==
    IF useLog THEN interpolateLUT(fsub(F_ONE, r)) ELSE fsub(F_ONE, r)

shapeLeftLUT(r, useLog) == IF ~useLog THEN r ELSE interpolateLUT(r)

shapeRightLUT(r, useLog) ==
    IF ~useLog THEN fsub(F_ONE, r) ELSE interpolateLUT(fsub(F_ONE, r))

\* ------------------------------------------------------------------------
\* computeVolume helpers.  Each *Final operator is the float handed to the
\* (uint16_t) conversion of the return statement.
\* ------------------------------------------------------------------------
Clamp16(f) ==
    IF f < F_ZERO THEN F_ZERO ELSE IF f > UI16_MAX_F THEN UI16_MAX_F ELSE f

\* slip: the slope is never inverted
InvertingMix_NoInversion(shaped, offset, range, sideIsBigger) ==
    Clamp16(fadd(offset, fmul(shaped, range)))

\* final after the clamps, offset and range being computed
InvertingMix(shaped, offset, range, sideIsBigger) ==
    Clamp16(IF sideIsBigger
            THEN fadd(offset, fmul(fsub(F_ONE, shaped), range))
            ELSE fadd(offset, fmul(shaped, range)))

\* inverting revision, with sideIsBigger given
InvertingFinal(shaped, center_val, side_val, sideIsBigger) ==
    InvertingMix(shaped, IF sideIsBigger THEN center_val ELSE side_val,
                 fabsf(fsub(center_val, side_val)), sideIsBigger)

\* slip: the inverting result is scaled by the centre pot once more
computeVolumeLeftFinal_Scaled(r, center_val, left_val, useLog) ==
    Clamp16(fmul(InvertingFinal(shapeLeft(r, useLog), center_val, left_val,
                                left_val > center_val),
                 fdiv(center_val, UI16_MAX_F)))

computeVolumeLeftFinal(r, center_val, left_val, useLog) ==
    InvertingFinal(shapeLeft(r, useLog), center_val, left_val,
                   left_val > center_val)

computeVolumeRightFinal(r, center_val, right_val, useLog) ==
    InvertingFinal(shapeRight(r, useLog), center_val, right_val,
                   right_val > center_val)

\* first and normalized revisions
\* slip: the range factor is dropped
computeVolumeLeftScaledFinal_NoRange(r, offset, range, centerScale, useLog) ==
    Clamp16(fmul(fadd(offset, shapeLeftLUT(r, useLog)), centerScale))

\* volumeScaled_f after its clamp
computeVolumeLeftScaledFinal(r, offset, range, centerScale, useLog) ==
    Clamp16(fmul(fadd(offset, fmul(shapeLeftLUT(r, useLog), range)),
                 centerScale))

\* volumeScaled_f after its clamp, volume_f being clamped before the scaling
computeVolumeRightScaledFinal(r, offset, range, centerScale, useLog) ==
    Clamp16(fmul(Clamp16(fadd(offset, fmul(shapeRightLUT(r, useLog), range))),
                 centerScale))

\* (uint16_t)f: the values the conversion can produce.  Outside the range of
\* uint16_t the conversion is undefined, and any value may come out.
CastU16(f) ==
    IF f >= F_ZERO /\ Trunc(f) <= 65535 THEN {Trunc(f)} ELSE 0..65535

\* ------------------------------------------------------------------------
\* Plateau
\* ------------------------------------------------------------------------
\* slip: the half plateau is not added
CenterFromSlider_NoOffset(slider_fil) ==
    fmul(fdiv(slider_fil, UI16_MAX_F), slider_length_minus_center_float)

\* fraction_slider = slider_fil_f / UI16_MAX_F, then center_from_slider_f
CenterFromSlider(slider_fil) ==
    fadd(center_width_float,
         fmul(fdiv(slider_fil, UI16_MAX_F), slider_length_minus_center_float))

\* slip: the half plateau is added on the left as on the right
LeftSlidePoint_Added(center) == fadd(center, center_width_float)

LeftSlidePoint(center) == fsub(center, center_width_float)

RightSlidePoint(center) == fadd(center, center_width_float)

\* slip: the left comparison is inclusive
Zone_LeftInclusive(cv, left_pt, right_pt) ==
    IF cv <= left_pt THEN "left"
    ELSE IF cv > right_pt THEN "right"
    ELSE "center"

\* slip: inclusive comparisons
Zone_Inclusive(cv, left_pt, right_pt) ==
    IF cv <= left_pt THEN "left"
    ELSE IF cv >= right_pt THEN "right"
    ELSE "center"

\* zone of the primary sample
Zone(cv, left_pt, right_pt) ==
    IF cv < left_pt THEN "left"
    ELSE IF cv > right_pt THEN "right"
    ELSE "center"

\* ratio_l after the guard, before the clamps
RatioLeftRaw(cv, left_pt) ==
    IF left_pt > F_ZERO THEN fdiv(cv, left_pt) ELSE F_ZERO

\* ratio_l after the guard and the clamps
RatioLeft(cv, left_pt) == Clamp01(RatioLeftRaw(cv, left_pt))

\* ratio_r from diff_cv and denom_r, before the clamps
RatioOfRaw(diff_cv, denom_r) ==
    IF denom_r > F_ZERO THEN fdiv(diff_cv, denom_r) ELSE F_ZERO

\* ratio_r from diff_cv and denom_r, after the clamps
RatioOf(diff_cv, denom_r) == Clamp01(RatioOfRaw(diff_cv, denom_r))

\* ratio_r after the guard and the clamps
RatioRight(cv, right_pt) ==
    RatioOf(fsub(cv, right_pt), fsub(UI16_MAX_F, right_pt))

\* the float converted to uint16_t in the left / right zone
LeftFinal(rev, r, center_fil, left_fil, useLog) ==
    IF rev = "inverting"
    THEN computeVolumeLeftFinal(r, center_fil, left_fil, useLog)
    ELSE computeVolumeLeftScaledFinal(r, left_fil, fsub(UI16_MAX_F, left_fil),
                                      fdiv(center_fil, UI16_MAX_F), useLog)

RightFinal(rev, r, center_fil, right_fil, useLog) ==
    IF rev = "inverting"
    THEN computeVolumeRightFinal(r, center_fil, right_fil, useLog)
    ELSE computeVolumeRightScaledFinal(r, right_fil,
                                       fsub(UI16_MAX_F, right_fil),
                                       fdiv(center_fil, UI16_MAX_F), useLog)

\* slip: a sub-output is written only in its own zone
SubVolume_Stale(side, z, v) ==
    IF z = side THEN v
    ELSE IF side = "left" THEN volume_left ELSE volume_right

\* volume_left / volume_right after a pass in zone z: the value v returned by
\* computeVolume* in the sub-output's own zone, 0 in the two other zones
SubVolume(side, z, v) == IF z = side THEN v ELSE 0

\* ------------------------------------------------------------------------
\* Actions
\* ------------------------------------------------------------------------
Init ==
    /\ revision \in Revisions
    /\ pc = "start"
    /\ lutC = 0
    /\ cv_raw_f = F_ZERO
    /\ slider_raw_f = F_ZERO /\ slider_fil_f = F_ZERO /\ init_slider = FALSE
    /\ center_raw_f = F_ZERO /\ center_fil_f = F_ZERO /\ init_center = FALSE
    /\ left_raw_f = F_ZERO /\ left_fil_f = F_ZERO /\ init_left = FALSE
    /\ right_raw_f = F_ZERO /\ right_fil_f = F_ZERO /\ init_right = FALSE
    /\ volume = 0 /\ volume_left = 0 /\ volume_right = 0
    /\ center_from_slider_f = F_ZERO
    /\ left_slide_point_f = F_ZERO
    /\ right_slide_point_f = F_ZERO
    /\ useLogLeft = FALSE /\ useLogRight = FALSE
    /\ zone = "none"
    /\ ratio = F_ZERO
    /\ cast_f = F_ZERO
    /\ dac = 0
    /\ iter = 0

\* main() up to the loop: buildLUT(SHAPE_C)
BuildLUT ==
    /\ pc = "start"
    /\ pc' = "loop"
    /\ lutC' = SHAPE_C
    /\ UNCHANGED <<revision, cv_raw_f, pots, outs, iter>>

\* One pass of while (true), stage by stage.  Each stage adds to the record b
\* of what the stages before it computed.
\* 6) the float handed to the conversion to uint16_t
LoopFinal(b) ==
    [final |-> IF b.zone = "left"
               THEN LeftFinal(revision, b.ratio, b.center[1], b.left[1],
                              b.bl)
               ELSE IF b.zone = "right"
               THEN RightFinal(revision, b.ratio, b.center[1], b.right[1],
                               b.br)
               ELSE b.center[1]] @@ b

\* 5) the ratio of the zone
LoopRatio(b) ==
    LoopFinal([ratio |-> IF b.zone = "left"
                         THEN RatioLeft(b.cv_raw, b.left_slide_point)
                         ELSE IF b.zone = "right"
                         THEN RatioRight(b.cv_raw, b.right_slide_point)
                         ELSE F_ZERO] @@ b)

\* 5) the zone
LoopZone(b) ==
    LoopRatio([zone |-> Zone(b.cv_raw, b.left_slide_point,
                             b.right_slide_point)] @@ b)

\* 3) the plateau boundaries
LoopEdges(b) ==
    LoopZone([left_slide_point |-> LeftSlidePoint(b.center_from_slider),
              right_slide_point |-> RightSlidePoint(b.center_from_slider)]
             @@ b)

\* slip: the boundaries are taken from the slider value of the pass before
LoopPlateau_Stale(b) ==
    LoopEdges([center_from_slider |-> CenterFromSlider(slider_fil_f)] @@ b)

LoopPlateau(b) ==
    LoopEdges([center_from_slider |-> CenterFromSlider(b.slider[1])] @@ b)

\* 2) the four filters
LoopFilters(b) ==
    LoopPlateau(
        [slider |-> ewma_filter_float(b.slider_raw, slider_fil_f, ALPHA_POTS,
                                      init_slider),
         center |-> ewma_filter_float(b.center_raw, center_fil_f, ALPHA_POTS,
                                      init_center),
         left |-> ewma_filter_float(b.left_raw, left_fil_f, ALPHA_POTS,
                                    init_left),
         right |-> ewma_filter_float(b.right_raw, right_fil_f, ALPHA_POTS,
                                     init_right)] @@ b)

\* 1) the five analog inputs reading cv, sl, ce, le, ri (normalized, in
\* [0,1]) and the two switches reading bl, br
LoopBody(cv, sl, ce, le, ri, bl, br) ==
    LoopFilters([cv_raw |-> fmul(cv, UI16_MAX_F),
                 slider_raw |-> fmul(sl, UI16_MAX_F),
                 center_raw |-> fmul(ce, UI16_MAX_F),
                 left_raw |-> fmul(le, UI16_MAX_F),
                 right_raw |-> fmul(ri, UI16_MAX_F),
                 bl |-> bl, br |-> br])

Loop(cv, sl, ce, le, ri, bl, br) ==
    /\ pc = "loop"
    /\ \E b \in {LoopBody(cv, sl, ce, le, ri, bl, br)} :
        /\ cv_raw_f' = b.cv_raw
        /\ slider_raw_f' = b.slider_raw
        /\ center_raw_f' = b.center_raw
        /\ left_raw_f' = b.left_raw
        /\ right_raw_f' = b.right_raw
        /\ slider_fil_f' = b.slider[1] /\ init_slider' = b.slider[2]
        /\ center_fil_f' = b.center[1] /\ init_center' = b.center[2]
        /\ left_fil_f' = b.left[1] /\ init_left' = b.left[2]
        /\ right_fil_f' = b.right[1] /\ init_right' = b.right[2]
        /\ center_from_slider_f' = b.center_from_slider
        /\ left_slide_point_f' = b.left_slide_point
        /\ right_slide_point_f' = b.right_slide_point
        /\ useLogLeft' = bl
        /\ useLogRight' = br
        /\ zone' = b.zone
        /\ ratio' = b.ratio
        /\ cast_f' = b.final
        /\ volume' \in CastU16(b.final)
        /\ volume_left' = SubVolume("left", b.zone, volume')
        /\ volume_right' = SubVolume("right", b.zone, volume')
        /\ dac' = volume'
    /\ UNCHANGED <<revision, pc, lutC>>

\* ------------------------------------------------------------------------
\* Environment: what the inputs read
\* ------------------------------------------------------------------------
\* cv_input.read(): 0, 0.05, 0.45, 0.55, 0.9, 1
CvReads == {0, 1028443341, 1055286886, 1057803469, 1063675494, 1065353216}

\* <<slider, center, left, right>> read from the four pots
PotReads ==
    { <<0, 0, 0, 0>>,
      <<1056964608, 1061158912, 1048576000, 1065353216>>,
      <<1056964608, 1050253722, 1063675494, 1017370378>>,
      <<1065353216, 1065353216, 1051372203, 1048576000>> }

MaxIter == 2

Iterate ==
    /\ iter < MaxIter
    /\ iter' = iter + 1
    /\ \E cv \in CvReads, p \in PotReads, bl \in BOOLEAN, br \in BOOLEAN :
          Loop(cv, p[1], p[2], p[3], p[4], bl, br)

Next == BuildLUT \/ Iterate

Spec == Init /\ [][Next]_vars

\* ------------------------------------------------------------------------
\* Properties
\* ------------------------------------------------------------------------
\* at least one pass of the loop has run
Started == zone # "none"

\* the floats just below and just above a positive float
FPred(f) == f - 1
FSucc(f) == f + 1

\* C1: in every iteration, with the filtered position control in
\* [0, FULL_SCALE], the plateau boundaries satisfy
\* 0 <= left_edge <= center <= right_edge <= FULL_SCALE, where
\* left_edge = center - half_width, right_edge = center + half_width and
\* half_width = 0.05 * 65535 = 3276.75.
C1_PlateauInvariant ==
    (Started /\ F_ZERO <= slider_fil_f /\ slider_fil_f <= UI16_MAX_F) =>
        /\ center_width_float = 1162660864
        /\ F_ZERO <= left_slide_point_f
        /\ left_slide_point_f <= center_from_slider_f
        /\ center_from_slider_f <= right_slide_point_f
        /\ right_slide_point_f <= UI16_MAX_F
        /\ left_slide_point_f = fsub(center_from_slider_f, center_width_float)
        /\ right_slide_point_f = fadd(center_from_slider_f, center_width_float)

\* C1 witness: the position control at full scale after filtering, so that
\* the right edge sits on FULL_SCALE
C1_Witness ==
    /\ Started
    /\ iter = 2
    /\ slider_fil_f = UI16_MAX_F
    /\ right_slide_point_f = UI16_MAX_F
    /\ left_slide_point_f > F_ZERO

\* C2: exactly one zone is chosen from the primary sample and the current
\* boundaries: Left iff primary < left_edge, Right iff primary > right_edge,
\* Center otherwise; a sample equal to an edge is Center.
C2_ZoneClassification ==
    Started =>
        /\ zone \in {"left", "center", "right"}
        /\ (zone = "left") <=> (cv_raw_f < left_slide_point_f)
        /\ (zone = "right") <=> (cv_raw_f > right_slide_point_f)
        /\ (zone = "center") <=> (/\ cv_raw_f >= left_slide_point_f
                                  /\ cv_raw_f <= right_slide_point_f)
        /\ (cv_raw_f = left_slide_point_f \/ cv_raw_f = right_slide_point_f)
              => zone = "center"

\* C2 witness: a primary sample exactly on a left edge that is not the origin
C2_Witness ==
    /\ Started
    /\ cv_raw_f = left_slide_point_f
    /\ left_slide_point_f > F_ZERO
    /\ zone = "center"

\* C3: after every iteration volume_right is 0 unless the zone is Right and
\* volume_left is 0 unless the zone is Left; in the Center zone both are 0
\* and the output is the filtered center value truncated; in the Left
\* (Right) zone the output is volume_left (volume_right).
C3_SubOutputs ==
    Started =>
        /\ (volume_right # 0) => (zone = "right")
        /\ (volume_left # 0) => (zone = "left")
        /\ (zone = "center") =>
              (volume_left = 0 /\ volume_right = 0
               /\ volume = Trunc(center_fil_f))
        /\ (zone = "left") => (volume = volume_left)
        /\ (zone = "right") => (volume = volume_right)

\* C3 witness: second pass in the Center zone with a non-zero output
C3_Witness ==
    /\ iter = 2
    /\ zone = "center"
    /\ volume > 0
    /\ volume_left = 0
    /\ volume_right = 0

\* C4: the float converted to uint16_t is within [0, 65535] in every
\* iteration, and so is the value given to write_u16.
C4_OutputRange ==
    Started =>
        /\ F_ZERO <= cast_f
        /\ cast_f <= UI16_MAX_F
        /\ dac \in 0..65535
        /\ dac = Trunc(cast_f)
        /\ dac = volume

\* C4 witness: the Center zone hands on a filtered value that is not a whole
\* number, on the second pass
C4_Witness ==
    /\ iter = 2
    /\ zone = "center"
    /\ cast_f = center_fil_f
    /\ FromInt(Trunc(center_fil_f)) # center_fil_f
    /\ dac = Trunc(center_fil_f)

\* ------------------------------------------------------------------------
\* the shaped ratio of the last iteration, Left and Right
ShapedLeft == IF useLogLeft THEN interpolateLUT(ratio) ELSE ratio

ShapedRight ==
    IF useLogRight THEN interpolateLUT(fsub(F_ONE, ratio))
    ELSE fsub(F_ONE, ratio)

\* shaped ratio combined with the side control under the inversion rule:
\* from the side value up to the centre value, or from the centre value up
\* to the side value taken with (1 - shaped) when the side is the bigger
InversionRule(shaped, side, center) ==
    IF side > center
    THEN fadd(center, fmul(fsub(F_ONE, shaped), fsub(side, center)))
    ELSE fadd(side, fmul(shaped, fsub(center, side)))

\* shaped ratio combined with the side control without inversion
NoInversion(shaped, side) ==
    fadd(side, fmul(shaped, fsub(UI16_MAX_F, side)))

secondary_scale == fdiv(center_fil_f, UI16_MAX_F)

\* C5 as stated: in the Left (Right) zone the output is the combination under
\* the inversion rule, multiplied by secondary_scale, clamped and truncated.
C5_Original ==
    /\ (zone = "left") =>
          volume = Trunc(Clamp16(fmul(
                     InversionRule(ShapedLeft, left_fil_f, center_fil_f),
                     secondary_scale)))
    /\ (zone = "right") =>
          volume = Trunc(Clamp16(fmul(
                     InversionRule(ShapedRight, right_fil_f, center_fil_f),
                     secondary_scale)))

\* C5 amended: in the inverting revision the Left (Right) output is the
\* combination under the inversion rule, clamped to [0, FULL_SCALE] and
\* truncated, with no multiplication by secondary_scale; in the two earlier
\* revisions it is side + shaped * (FULL_SCALE - side), without inversion,
\* multiplied by secondary_scale, clamped and truncated.
C5_Resolution ==
    /\ (zone = "left" /\ revision = "inverting") =>
          volume = Trunc(Clamp16(
                     InversionRule(ShapedLeft, left_fil_f, center_fil_f)))
    /\ (zone = "right" /\ revision = "inverting") =>
          volume = Trunc(Clamp16(
                     InversionRule(ShapedRight, right_fil_f, center_fil_f)))
    /\ (zone = "left" /\ revision # "inverting") =>
          volume = Trunc(Clamp16(fmul(NoInversion(ShapedLeft, left_fil_f),
                                      secondary_scale)))
    /\ (zone = "right" /\ revision # "inverting") =>
          volume = Trunc(Clamp16(fmul(NoInversion(ShapedRight, right_fil_f),
                                      secondary_scale)))

\* C5 witness: inverting revision, Left zone, exponential mode, the side pot
\* above the centre pot, the centre pot below full scale
C5_Witness ==
    /\ revision = "inverting"
    /\ zone = "left"
    /\ useLogLeft
    /\ left_fil_f > center_fil_f
    /\ center_fil_f > F_ZERO
    /\ center_fil_f < UI16_MAX_F
    /\ ratio > F_ZERO
    /\ volume > Trunc(center_fil_f)

\* ------------------------------------------------------------------------
\* Output of the pass for a primary sample cvr, the filtered controls and
\* the switches being those of the current state
OutputAt(cvr) ==
    LET z == Zone(cvr, left_slide_point_f, right_slide_point_f)
    IN  IF z = "left"
        THEN Trunc(LeftFinal(revision, RatioLeft(cvr, left_slide_point_f),
                             center_fil_f, left_fil_f, useLogLeft))
        ELSE IF z = "right"
        THEN Trunc(RightFinal(revision, RatioRight(cvr, right_slide_point_f),
                              center_fil_f, right_fil_f, useLogRight))
        ELSE Trunc(center_fil_f)

AbsDiff(a, b) == IF a >= b THEN a - b ELSE b - a

\* C6: for fixed filtered controls and modes, the output for the primary
\* sample just below left_edge (Left zone, ratio next to 1) and the output
\* for the sample just above right_edge (Right zone, ratio next to 0) differ
\* from the Center-zone output by at most one quantization step, in linear
\* and in exponential mode.
C6_ZoneContinuity ==
    Started =>
        /\ (left_slide_point_f > F_ZERO) =>
              AbsDiff(OutputAt(FPred(left_slide_point_f)),
                      OutputAt(left_slide_point_f)) <= 1
        /\ (right_slide_point_f < UI16_MAX_F) =>
              AbsDiff(OutputAt(FSucc(right_slide_point_f)),
                      OutputAt(right_slide_point_f)) <= 1

\* C6 restricted to the two revisions that normalise the LUT
C6_ContinuityNormalized == (revision # "first") => C6_ZoneContinuity

\* C6 restricted to linear shaping
C6_ContinuityLinear == (~useLogLeft /\ ~useLogRight) => C6_ZoneContinuity

AtOrigin ==
    /\ Started
    /\ cv_raw_f = F_ZERO
    /\ slider_fil_f = F_ZERO /\ center_fil_f = F_ZERO
    /\ left_fil_f = F_ZERO /\ right_fil_f = F_ZERO

\* C8 as stated: at the origin the iteration is classified Left with
\* ratio = 0 and the output is 0.
C8_Original == AtOrigin => (zone = "left" /\ ratio = F_ZERO /\ volume = 0)

\* C8 amended: at the origin left_edge is 0, the sample is not below it, the
\* iteration is classified Center and the output is 0.
C8_Origin ==
    AtOrigin =>
        /\ left_slide_point_f = F_ZERO
        /\ zone = "center"
        /\ volume = 0
        /\ dac = 0

\* C8 witness: the origin, reached on the second pass
C8_Witness == AtOrigin /\ iter = 2 /\ zone = "center"

\* ------------------------------------------------------------------------
\* One call of the filter as the claim describes it: the flag is set
\* afterwards; a first call gives the raw input; a later call gives
\* previous + alpha * (raw - previous).
FilterCall(raw, prev, wasInit, out, isInit) ==
    /\ isInit
    /\ ~wasInit => out = raw
    /\ wasInit => out = fadd(prev, fmul(ALPHA_POTS, fsub(raw, prev)))

\* C9: for each of the four filtered controls the first filter call returns
\* the raw input and sets the initialized flag, the flag is never reset, and
\* every later call returns previous_output + alpha * (raw - previous_output),
\* which becomes the stored state.
C9_LazyInit ==
    [][ /\ init_slider => init_slider'
        /\ init_center => init_center'
        /\ init_left => init_left'
        /\ init_right => init_right'
        /\ (pc = "loop") =>
              /\ FilterCall(slider_raw_f', slider_fil_f, init_slider,
                            slider_fil_f', init_slider')
              /\ FilterCall(center_raw_f', center_fil_f, init_center,
                            center_fil_f', init_center')
              /\ FilterCall(left_raw_f', left_fil_f, init_left,
                            left_fil_f', init_left')
              /\ FilterCall(right_raw_f', right_fil_f, init_right,
                            right_fil_f', init_right') ]_vars

\* C9 witness: a second call has blended a new raw value into a non-zero
\* stored value
C9_Witness ==
    /\ iter = 2
    /\ init_slider /\ init_center /\ init_left /\ init_right
    /\ center_fil_f # center_raw_f
    /\ center_fil_f > F_ZERO
    /\ center_raw_f > center_fil_f

\* ------------------------------------------------------------------------
\* Constant inputs: the first pass reads anything, the second pass reads new
\* pot values, and every later pass reads what the second one read.
\* ------------------------------------------------------------------------
\* passes of the loop followed while the inputs are held
SettlePasses == 2048

\* cv_input.read() while the pots settle: 0.5
SettleCv == F_HALF

\* <<slider, center, left, right>> read while the inputs are held: the pots
\* at rest at 0, the pots one float below 1, and two mixed settings
SettleReads ==
    { <<0, 0, 0, 0>>,
      <<FPred(F_ONE), FPred(F_ONE), FPred(F_ONE), FPred(F_ONE)>>,
      <<1056964608, 1061158912, 1048576000, 1065353216>>,
      <<1065353216, 1065353216, 1051372203, 1048576000>> }

SettleStart ==
    /\ iter = 0
    /\ iter' = 1
    /\ \E p \in PotReads : Loop(SettleCv, p[1], p[2], p[3], p[4], FALSE, TRUE)

SettleTurn ==
    /\ iter = 1
    /\ iter' = 2
    /\ \E p \in SettleReads : Loop(SettleCv, p[1], p[2], p[3], p[4], FALSE, TRUE)

SettleHeld ==
    /\ iter >= 2
    /\ iter < SettlePasses
    /\ iter' = iter + 1
    /\ \E p \in SettleReads :
          /\ fmul(p[1], UI16_MAX_F) = slider_raw_f
          /\ fmul(p[2], UI16_MAX_F) = center_raw_f
          /\ fmul(p[3], UI16_MAX_F) = left_raw_f
          /\ fmul(p[4], UI16_MAX_F) = right_raw_f
          /\ Loop(SettleCv, p[1], p[2], p[3], p[4], FALSE, TRUE)

InitSettle == Init /\ revision = "inverting"

NextSettle == BuildLUT \/ SettleStart \/ SettleTurn \/ SettleHeld

SpecSettle == InitSettle /\ [][NextSettle]_vars

\* out lies between prev and target (on either side)
Between(prev, out, target) ==
    /\ (prev <= target) => (prev <= out /\ out <= target)
    /\ (prev >= target) => (target <= out /\ out <= prev)

\* every call of an initialized filter moves the output toward the input of
\* that call, never away from it and never across it
Approaches ==
    [][ /\ init_slider => Between(slider_fil_f, slider_fil_f', slider_raw_f')
        /\ init_center => Between(center_fil_f, center_fil_f', center_raw_f')
        /\ init_left => Between(left_fil_f, left_fil_f', left_raw_f')
        /\ init_right => Between(right_fil_f, right_fil_f', right_raw_f')
      ]_vars

\* the four filter outputs equal their inputs
Reached ==
    /\ slider_fil_f = slider_raw_f
    /\ center_fil_f = center_raw_f
    /\ left_fil_f = left_raw_f
    /\ right_fil_f = right_raw_f

\* a further call with the same input returns the stored output again
FixedPoint(raw, fil) == fadd(fil, fmul(ALPHA_POTS, fsub(raw, fil))) = fil

\* no filter output will change any more while the inputs are held
Stationary ==
    /\ iter >= 2
    /\ FixedPoint(slider_raw_f, slider_fil_f)
    /\ FixedPoint(center_raw_f, center_fil_f)
    /\ FixedPoint(left_raw_f, left_fil_f)
    /\ FixedPoint(right_raw_f, right_fil_f)

\* 2^-4 = 0.0625f
SettleTolerance == fdiv(F_ONE, FromInt(16))

Near(raw, fil) == fabsf(fsub(raw, fil)) < SettleTolerance

Settled ==
    /\ Stationary
    /\ Near(slider_raw_f, slider_fil_f)
    /\ Near(center_raw_f, center_fil_f)
    /\ Near(left_raw_f, left_fil_f)
    /\ Near(right_raw_f, right_fil_f)

\* C10 as stated, its last part: the output eventually reaches the input.
\* The loop is deterministic, so a filter whose next call under the held
\* input returns the stored output again stays where it is for ever: it
\* must then be at the input.
C10_Original ==
    (iter >= 2) =>
        /\ FixedPoint(slider_raw_f, slider_fil_f) =>
              slider_fil_f = slider_raw_f
        /\ FixedPoint(center_raw_f, center_fil_f) =>
              center_fil_f = center_raw_f
        /\ FixedPoint(left_raw_f, left_fil_f) => left_fil_f = left_raw_f
        /\ FixedPoint(right_raw_f, right_fil_f) => right_fil_f = right_raw_f

\* C10 amended: with alpha = 0.06 and a constant input the output approaches
\* the input monotonically and never overshoots, and within 2048 passes it
\* stops changing at a value less than 0.0625 away from the input, which
\* need not be the input.
C10_Settles == Approaches /\ [](iter >= SettlePasses => Settled)

\* C10 witness: the filters have stopped short of their inputs, and the
\* truncated centre value is one step below the truncated input
C10_Witness ==
    /\ iter >= SettlePasses
    /\ Settled
    /\ center_fil_f # center_raw_f
    /\ Trunc(center_fil_f) # Trunc(center_raw_f)

\* ------------------------------------------------------------------------
\* the table is non-decreasing
LutMonotone == \A i \in 0..(LUT_SIZE - 1) : lutExpUp(i) <= lutExpUp(i + 1)

\* the table ends within four units in the last place of 1.0
LutEndsAtOne == AbsDiff(lutExpUp(LUT_SIZE), F_ONE) <= 4

\* C11: once buildLUT(c) has run, table[0] = 0.0, table[N] = 1.0 within
\* floating-point tolerance and table[i] <= table[i+1] for i in 0..N-1; the
\* table is written by buildLUT only, before the loop, and no iteration
\* modifies it.  (The table does not change after buildLUT, so its order is
\* looked at once, before the first pass.)
C11_TableNormalized ==
    /\ (pc = "start") => lutC = 0
    /\ (pc = "loop") =>
          /\ lutC = SHAPE_C
          /\ lutExpUp(0) = F_ZERO
          /\ LutEndsAtOne
          /\ (iter = 0) => LutMonotone

\* C11 in the two revisions whose buildLUT divides by 1 - exp(-c):
\* table[N] is exactly 1.0
C11_NormalizedRevisions ==
    (revision # "first") =>
        /\ C11_TableNormalized
        /\ (pc = "loop") => lutExpUp(LUT_SIZE) = F_ONE

\* C11 without the end point: what holds in all three revisions, the first
\* one ending at 1 - exp(-4) = 0.9816844
C11_AllRevisions ==
    /\ (pc = "start") => lutC = 0
    /\ (pc = "loop") =>
          /\ lutC = SHAPE_C
          /\ lutExpUp(0) = F_ZERO
          /\ (iter = 0) => LutMonotone
          /\ (revision = "first") => lutExpUp(LUT_SIZE) = 1065045931

\* ------------------------------------------------------------------------
\* arguments given to interpolateLUT: -1, the float below 0, 0, the float
\* above 0, 1/4096, 0.5, the float below 1, 1, the float above 1, 2, 65535,
\* and the ratio of the last pass
InterpInputs ==
    {fneg(F_ONE), -1, F_ZERO, 1, fdiv(F_ONE, FromInt(4096)), F_HALF,
     FPred(F_ONE), F_ONE, FSucc(F_ONE), F_TWO, UI16_MAX_F, ratio}

\* the index interpolateLUT uses for x, and its frac
InterpIdxOf(x) == interpolateIdx(fmul(Clamp01(x), LUT_SIZE_F))
InterpFracOf(x) ==
    fsub(fmul(Clamp01(x), LUT_SIZE_F), FromInt(InterpIdxOf(x)))

\* the parts of C12 that do not depend on the table's end value
InterpBounds ==
    /\ interpolateLUT(F_ZERO) = F_ZERO
    /\ \A x \in InterpInputs :
          /\ InterpIdxOf(x) \in 0..(LUT_SIZE - 1)
          /\ (x < F_ZERO) => interpolateLUT(x) = interpolateLUT(F_ZERO)
          /\ (x > F_ONE) => interpolateLUT(x) = interpolateLUT(F_ONE)
    /\ InterpIdxOf(F_ONE) = LUT_SIZE - 1
    /\ InterpFracOf(F_ONE) = F_ONE
    /\ interpolateLUT(F_ONE) = lutExpUp(LUT_SIZE)

\* C12: interpolateLUT(0.0) = 0.0 and interpolateLUT(1.0) = 1.0; an x below
\* 0 or above 1 is clamped and gives the same endpoint values; the index
\* satisfies 0 <= idx <= N-1, and x = 1.0 is served from idx = N-1 with
\* frac = 1.
C12_InterpEndpoints ==
    (pc = "loop") => (InterpBounds /\ interpolateLUT(F_ONE) = F_ONE)

\* C12 in the two revisions that normalise the table
C12_NormalizedRevisions == (revision # "first") => C12_InterpEndpoints

\* C12 without the value at 1.0: in all three revisions interpolateLUT(1.0)
\* is table[N], from idx = N-1 and frac = 1
C12_AllRevisions == (pc = "loop") => InterpBounds

\* ------------------------------------------------------------------------
\* ratios given to the shaping functions next to the ratio of the last
\* pass: 0, the smallest float, 1/4096, 0.05, 0.25, 1/3, 0.45, 0.5, 0.75,
\* 0.9, the float below 1, and 1
ShapeRatios ==
    {F_ZERO, 1, fdiv(F_ONE, FromInt(4096)), 1028443341, 1048576000,
     1051372203, 1055286886, F_HALF, 1061158912, 1063675494, FPred(F_ONE),
     F_ONE}

\* |shapeLeft(r) - shapeRight(1 - r)| with the pair of shaping functions
\* of the revision
MirrorGap(r, useLog) ==
    IF revision = "inverting"
    THEN fabsf(fsub(shapeLeft(r, useLog),
                    shapeRight(fsub(F_ONE, r), useLog)))
    ELSE fabsf(fsub(shapeLeftLUT(r, useLog),
                    shapeRightLUT(fsub(F_ONE, r), useLog)))

\* the right shaping at 1 - r is the left shaping at 1 - (1 - r)
MirrorSameTable(r, useLog) ==
    IF revision = "inverting"
    THEN shapeRight(fsub(F_ONE, r), useLog)
           = shapeLeft(fsub(F_ONE, fsub(F_ONE, r)), useLog)
    ELSE shapeRightLUT(fsub(F_ONE, r), useLog)
           = shapeLeftLUT(fsub(F_ONE, fsub(F_ONE, r)), useLog)

\* 2^-22
MirrorTolerance == fdiv(F_ONE, FromInt(4194304))

MirrorExact(r) == \A useLog \in BOOLEAN : MirrorGap(r, useLog) = F_ZERO

MirrorRounded(r) ==
    \A useLog \in BOOLEAN :
        /\ MirrorSameTable(r, useLog)
        /\ MirrorGap(r, useLog)
             <= (IF r >= F_HALF \/ r = F_ZERO THEN F_ZERO
                 ELSE MirrorTolerance)

\* C13 as stated: for every ratio r in [0,1], shapeLeft(r, mode) equals
\* shapeRight(1 - r, mode), in linear and in exponential mode.
C13_Original ==
    (pc = "loop") =>
        /\ MirrorExact(ratio)
        /\ (iter = 0) => \A r \in ShapeRatios : MirrorExact(r)

\* C13 amended: shapeRight(1 - r, mode) is shapeLeft(1 - (1 - r), mode), the
\* same ascending table sampled at the complement of the complement; 1 - r
\* is rounded, so the two sides are equal for r in [0.5, 1] and for r = 0,
\* and differ by at most 2^-22 for the other r in [0,1].
C13_Mirror ==
    (pc = "loop") =>
        /\ MirrorRounded(ratio)
        /\ (iter = 0) => \A r \in ShapeRatios : MirrorRounded(r)

\* C13 witness: a pass in the Left zone in exponential mode whose ratio, in
\* (0, 0.5), is shaped to a value that the mirrored right shaping misses
C13_Witness ==
    /\ zone = "left"
    /\ useLogLeft
    /\ ratio > F_ZERO /\ ratio < F_HALF
    /\ MirrorGap(ratio, TRUE) > F_ZERO
    /\ MirrorGap(ratio, TRUE) <= MirrorTolerance

\* ------------------------------------------------------------------------
\* the float a pass hands to the output conversion, recomputed from the
\* filtered values, boundaries, zone and ratio the pass left behind
FinalOfPass ==
    IF zone = "left"
    THEN LeftFinal(revision, ratio, center_fil_f, left_fil_f, useLogLeft)
    ELSE IF zone = "right"
    THEN RightFinal(revision, ratio, center_fil_f, right_fil_f, useLogRight)
    ELSE center_fil_f

RatioOfPass ==
    IF zone = "left" THEN RatioLeft(cv_raw_f, left_slide_point_f)
    ELSE IF zone = "right" THEN RatioRight(cv_raw_f, right_slide_point_f)
    ELSE F_ZERO

\* C14: in every pass the four filters are updated first, the plateau
\* boundaries are computed from that pass's filtered slider, the zone from
\* those boundaries, the output from that zone and that pass's filtered
\* center and side values, and the output sink is written last, with that
\* output: after pass k everything is derived from pass k's filtered values.
C14_StageOrder ==
    Started =>
        /\ init_slider /\ init_center /\ init_left /\ init_right
        /\ center_from_slider_f = CenterFromSlider(slider_fil_f)
        /\ left_slide_point_f = LeftSlidePoint(center_from_slider_f)
        /\ right_slide_point_f = RightSlidePoint(center_from_slider_f)
        /\ zone = Zone(cv_raw_f, left_slide_point_f, right_slide_point_f)
        /\ ratio = RatioOfPass
        /\ cast_f = FinalOfPass
        /\ volume \in CastU16(cast_f)
        /\ dac = volume

\* C14 witness: a second pass in the Left zone whose filtered slider, center
\* and left values all moved away from the first pass's (they are neither the
\* raw values of this pass nor a fixed point), and whose output was written
C14_Witness ==
    /\ iter = 2
    /\ zone = "left"
    /\ slider_fil_f # slider_raw_f
    /\ center_fil_f # center_raw_f
    /\ left_fil_f # left_raw_f
    /\ center_from_slider_f = CenterFromSlider(slider_fil_f)
    /\ cast_f = FinalOfPass
    /\ dac = volume

\* ------------------------------------------------------------------------
\* ratios of a sweep, ascending: 0, the smallest float, 1/4096, 0.05, 0.25,
\* 1/3, 0.45, 0.5, 0.75, 0.9, the float below 1, and 1
SweepRatios ==
    <<F_ZERO, 1, fdiv(F_ONE, FromInt(4096)), 1028443341, 1048576000,
      1051372203, 1055286886, F_HALF, 1061158912, 1063675494, FPred(F_ONE),
      F_ONE>>

\* the pre-truncation output of the inverting revision at ratio r
LeftAt(r, center_val, left_val, useLog) ==
    computeVolumeLeftFinal(r, center_val, left_val, useLog)
RightAt(r, center_val, right_val, useLog) ==
    computeVolumeRightFinal(r, center_val, right_val, useLog)

\* <<center value, side value>> tried next to the ones of the passes: the
\* ends of the range, equal values, 0.3 and 0.9 of full scale, and values
\* left by a filter after two and three passes
SlopePairs ==
    {<<F_ZERO, UI16_MAX_F>>, <<UI16_MAX_F, F_ZERO>>, <<F_ZERO, F_ZERO>>,
     <<UI16_MAX_F, UI16_MAX_F>>,
     <<fmul(1050253722, UI16_MAX_F), fmul(1063675494, UI16_MAX_F)>>,
     <<fmul(1063675494, UI16_MAX_F), fmul(1050253722, UI16_MAX_F)>>,
     <<1150514217, 1163734589>>, <<1163734589, 1150514217>>,
     <<1183903563, 1197041393>>, <<1197041393, 1183903563>>}

FMin(a, b) == IF a < b THEN a ELSE b
FMax(a, b) == IF a < b THEN b ELSE a
InBetween(v, a, b) == FMin(a, b) <= v /\ v <= FMax(a, b)

\* between the two values, or the float next above the larger one
NearlyBetween(v, a, b) == FMin(a, b) <= v /\ v <= FSucc(FMax(a, b))

\* r1 <= r2: the Left output moves from the left value towards the center
\* value, the Right output from the center value towards the right value
LeftSlope(r1, r2, c, l, useLog) ==
    IF l > c
    THEN LeftAt(r1, c, l, useLog) >= LeftAt(r2, c, l, useLog)
    ELSE LeftAt(r1, c, l, useLog) <= LeftAt(r2, c, l, useLog)
RightSlope(r1, r2, c, rv, useLog) ==
    IF c > rv
    THEN RightAt(r1, c, rv, useLog) >= RightAt(r2, c, rv, useLog)
    ELSE RightAt(r1, c, rv, useLog) <= RightAt(r2, c, rv, useLog)

\* the end of a slope: exactly v when v is the smaller of the two values
\* (the offset), else the float v or one next to it
SlopeEnd(out, v, other) ==
    IF v > other THEN AbsDiff(out, v) <= 1 ELSE out = v

\* center value c and side value v, both sides, ratios 0 <= r <= 1
SlopeEnds(c, v, useLog) ==
    /\ SlopeEnd(LeftAt(F_ZERO, c, v, useLog), v, c)
    /\ SlopeEnd(LeftAt(F_ONE, c, v, useLog), c, v)
    /\ SlopeEnd(RightAt(F_ZERO, c, v, useLog), c, v)
    /\ SlopeEnd(RightAt(F_ONE, c, v, useLog), v, c)

SlopeEndsExact(c, v, useLog) ==
    /\ LeftAt(F_ZERO, c, v, useLog) = v
    /\ LeftAt(F_ONE, c, v, useLog) = c
    /\ RightAt(F_ZERO, c, v, useLog) = c
    /\ RightAt(F_ONE, c, v, useLog) = v

SlopeMonotone(r1, r2, c, v, useLog) ==
    LeftSlope(r1, r2, c, v, useLog) /\ RightSlope(r1, r2, c, v, useLog)

SlopeBetween(r, c, v, useLog) ==
    /\ InBetween(LeftAt(r, c, v, useLog), v, c)
    /\ InBetween(RightAt(r, c, v, useLog), v, c)

SlopeNearlyBetween(r, c, v, useLog) ==
    /\ NearlyBetween(LeftAt(r, c, v, useLog), v, c)
    /\ NearlyBetween(RightAt(r, c, v, useLog), v, c)

SweepSteps == 1..(Len(SweepRatios) - 1)

\* monotonic from ratio 0 through the ratio of the pass to ratio 1, with the
\* filtered values and the switches of the pass
PassMonotone ==
    /\ LeftSlope(F_ZERO, ratio, center_fil_f, left_fil_f, useLogLeft)
    /\ LeftSlope(ratio, F_ONE, center_fil_f, left_fil_f, useLogLeft)
    /\ RightSlope(F_ZERO, ratio, center_fil_f, right_fil_f, useLogRight)
    /\ RightSlope(ratio, F_ONE, center_fil_f, right_fil_f, useLogRight)

PassEndsExact ==
    /\ LeftAt(F_ZERO, center_fil_f, left_fil_f, useLogLeft) = left_fil_f
    /\ LeftAt(F_ONE, center_fil_f, left_fil_f, useLogLeft) = center_fil_f
    /\ RightAt(F_ZERO, center_fil_f, right_fil_f, useLogRight) = center_fil_f
    /\ RightAt(F_ONE, center_fil_f, right_fil_f, useLogRight) = right_fil_f

PassEnds ==
    /\ SlopeEnd(LeftAt(F_ZERO, center_fil_f, left_fil_f, useLogLeft),
                left_fil_f, center_fil_f)
    /\ SlopeEnd(LeftAt(F_ONE, center_fil_f, left_fil_f, useLogLeft),
                center_fil_f, left_fil_f)
    /\ SlopeEnd(RightAt(F_ZERO, center_fil_f, right_fil_f, useLogRight),
                center_fil_f, right_fil_f)
    /\ SlopeEnd(RightAt(F_ONE, center_fil_f, right_fil_f, useLogRight),
                right_fil_f, center_fil_f)

\* C15 as stated (inverting revision): the pre-truncation Left output equals
\* the filtered left value at ratio 0 and the filtered center value at ratio
\* 1, the Right output the center value at ratio 0 and the filtered right
\* value at ratio 1; each is monotonic in the ratio between its ends, and
\* the output lies between the side value and the center value.
C15_Original ==
    (pc = "loop" /\ revision = "inverting") =>
        /\ (zone = "left") => InBetween(cast_f, left_fil_f, center_fil_f)
        /\ (zone = "right") => InBetween(cast_f, right_fil_f, center_fil_f)
        /\ PassEndsExact
        /\ PassMonotone
        /\ (iter = 0) =>
              \A useLog \in BOOLEAN, p \in SlopePairs :
                  /\ SlopeEndsExact(p[1], p[2], useLog)
                  /\ \A i \in SweepSteps :
                        /\ SlopeMonotone(SweepRatios[i], SweepRatios[i + 1],
                                         p[1], p[2], useLog)
                        /\ SlopeBetween(SweepRatios[i], p[1], p[2], useLog)
                        /\ SlopeBetween(SweepRatios[i + 1], p[1], p[2],
                                        useLog)

\* C15 amended (inverting revision): the output is monotonic in the ratio
\* as stated; an end of a slope is met exactly only where it is the smaller
\* of the side and center values, and at the larger one the output is that
\* value or a float next to it (offset + range is rounded); so the output
\* lies between the smaller value and the float next above the larger one.
C15_SlopeInversion ==
    (pc = "loop" /\ revision = "inverting") =>
        /\ (zone = "left") => NearlyBetween(cast_f, left_fil_f, center_fil_f)
        /\ (zone = "right") =>
              NearlyBetween(cast_f, right_fil_f, center_fil_f)
        /\ PassEnds
        /\ PassMonotone
        /\ (iter = 0) =>
              \A useLog \in BOOLEAN, p \in SlopePairs :
                  /\ SlopeEnds(p[1], p[2], useLog)
                  /\ \A i \in SweepSteps :
                        /\ SlopeMonotone(SweepRatios[i], SweepRatios[i + 1],
                                         p[1], p[2], useLog)
                        /\ SlopeNearlyBetween(SweepRatios[i], p[1], p[2],
                                              useLog)
                        /\ SlopeNearlyBetween(SweepRatios[i + 1], p[1], p[2],
                                              useLog)

\* C15 witness: a Left-zone pass of the inverting revision with the left
\* value above the center value, whose output is strictly between the two
\* and whose slope misses the left value at ratio 0 by one float
C15_Witness ==
    /\ revision = "inverting"
    /\ zone = "left"
    /\ left_fil_f > center_fil_f
    /\ ratio > F_ZERO /\ ratio < F_ONE
    /\ center_fil_f < cast_f /\ cast_f < left_fil_f
    /\ AbsDiff(LeftAt(F_ZERO, center_fil_f, left_fil_f, useLogLeft),
               left_fil_f) = 1
    /\ LeftAt(F_ONE, center_fil_f, left_fil_f, useLogLeft) = center_fil_f

\* ------------------------------------------------------------------------
\* primary samples tried against the boundaries of a state: the one of the
\* pass, the two ends of the range, the float just below the left boundary
\* and the float just above the right boundary
EdgeCvs ==
    {cv_raw_f, F_ZERO, UI16_MAX_F}
    \cup (IF left_slide_point_f > F_ZERO
          THEN {FPred(left_slide_point_f)} ELSE {})
    \cup (IF right_slide_point_f >= F_ZERO /\ right_slide_point_f < UI16_MAX_F
          THEN {FSucc(right_slide_point_f)} ELSE {})

In01(x) == F_ZERO <= x /\ x <= F_ONE

\* Left branch: the guard passes, the quotient is the ratio, no clamp acts
LeftGuard(cv) ==
    /\ left_slide_point_f > F_ZERO
    /\ RatioLeftRaw(cv, left_slide_point_f) = fdiv(cv, left_slide_point_f)
    /\ In01(fdiv(cv, left_slide_point_f))
    /\ RatioLeft(cv, left_slide_point_f) = fdiv(cv, left_slide_point_f)

\* Right branch: the same with diff_cv and denom_r
RightGuard(cv) ==
    /\ fsub(UI16_MAX_F, right_slide_point_f) > F_ZERO
    /\ RatioOfRaw(fsub(cv, right_slide_point_f),
                  fsub(UI16_MAX_F, right_slide_point_f))
         = fdiv(fsub(cv, right_slide_point_f),
                fsub(UI16_MAX_F, right_slide_point_f))
    /\ In01(fdiv(fsub(cv, right_slide_point_f),
                 fsub(UI16_MAX_F, right_slide_point_f)))
    /\ RatioRight(cv, right_slide_point_f)
         = fdiv(fsub(cv, right_slide_point_f),
                fsub(UI16_MAX_F, right_slide_point_f))

GuardAt(cv) ==
    /\ (Zone(cv, left_slide_point_f, right_slide_point_f) = "left")
          => LeftGuard(cv)
    /\ (Zone(cv, left_slide_point_f, right_slide_point_f) = "right")
          => RightGuard(cv)

\* C16: for a primary sample and a filtered position control in [0, 65535],
\* whenever the Left branch is taken left_edge > 0 and whenever the Right
\* branch is taken FULL_SCALE - right_edge > 0: no division by zero, the
\* ratio = 0 fallback is never selected, and the ratio before the clamps is
\* already in [0,1].
C16_GuardsUnreachable ==
    Started =>
        /\ In01(fdiv(cv_raw_f, UI16_MAX_F))
        /\ In01(fdiv(slider_fil_f, UI16_MAX_F))
        /\ (zone = "left") =>
              (LeftGuard(cv_raw_f)
               /\ ratio = fdiv(cv_raw_f, left_slide_point_f))
        /\ (zone = "right") =>
              (RightGuard(cv_raw_f)
               /\ ratio = fdiv(fsub(cv_raw_f, right_slide_point_f),
                               fsub(UI16_MAX_F, right_slide_point_f)))
        /\ \A cv \in EdgeCvs : GuardAt(cv)

\* C16 witness: a Right-zone pass with the sample at full scale, whose
\* unclamped ratio is exactly 1, next to boundaries for which the sample
\* just below the left boundary gives a Left ratio below 1
C16_Witness ==
    /\ zone = "right"
    /\ cv_raw_f = UI16_MAX_F
    /\ fsub(UI16_MAX_F, right_slide_point_f) > F_ZERO
    /\ ratio = F_ONE
    /\ left_slide_point_f > F_ZERO
    /\ Zone(FPred(left_slide_point_f), left_slide_point_f,
            right_slide_point_f) = "left"
    /\ fdiv(FPred(left_slide_point_f), left_slide_point_f) < F_ONE
====
